---- MODULE Spec2Model ----
(***************************************************************************)
(* Model of the ImagePixelator React component (src/src/main.jsx).         *)
(*                                                                         *)
(* State: the five useState cells, the hidden canvas behind canvasRef, the *)
(* FileReader/Image pairs created by processImage, the pending setTimeout  *)
(* closure of pixelateImage and the frame of the timer callback.           *)
(*                                                                         *)
(* A bitmap is a record [width, height, data] whose data is the flat RGBA  *)
(* byte array of ImageData: byte c of pixel (x, y) is at index             *)
(* (y * width + x) * 4 + c.                                                *)
(*                                                                         *)
(* The timer callback is one JavaScript task.  It is modelled in steps     *)
(* (entry, one step per block of the nested loops, exit) so that its       *)
(* termination can be examined; while it is inside the loops no other      *)
(* handler is enabled, so the steps are atomic with respect to the rest of *)
(* the component exactly as the task is.                                   *)
(***************************************************************************)
EXTENDS Integers, Sequences, FiniteSets

VARIABLES
    originalImage,    \* useState: the loaded HTMLImageElement, or Null
    pixelatedImage,   \* useState: the data URL of the result, or Null
    isDragging,       \* useState: drag feedback flag
    pixelSize,        \* useState: the block size
    isProcessing,     \* useState: processing flag
    canvas,           \* canvasRef.current: bitmap and 2d context state
    loads,            \* the FileReader/Image pairs made by processImage, in order
    timer,            \* the closure handed to setTimeout, or Null
    run               \* the frame of the (latest) timer callback

vars == <<originalImage, pixelatedImage, isDragging, pixelSize, isProcessing,
          canvas, loads, timer, run>>

\* JavaScript values that are not bitmaps or numbers are tagged records, so
\* that every comparison in the model is between values of one kind.
Null == [type |-> "null"]
Undefined == [type |-> "undefined"]
Number(v) == [type |-> "number", value |-> v]

-----------------------------------------------------------------------------
(* Bounds of the model *)

MaxWidth == 3        \* widest source bitmap enumerated
MaxHeight == 3       \* tallest source bitmap enumerated
MaxMarked == 2       \* pixels of a source that differ from its background
MaxBlockSize == 4    \* largest block size handed to the transform directly
MaxNegBlock == 1     \* block sizes down to -MaxNegBlock are handed to it
MaxOutside == 2      \* how far a loop counter is followed below zero
MaxSelections == 2   \* files selected or dropped in one behaviour
MaxSlider == 3       \* largest slider position the user moves to
MaxPasses == 2       \* successive transforms applied to one source

(* Program constants *)

InitialPixelSize == 10
SliderMin == 2
SliderMax == 50

-----------------------------------------------------------------------------
(* Bitmaps *)

Red == <<255, 0, 0, 255>>
Blue == <<0, 0, 255, 255>>
Glass == <<0, 255, 0, 128>>
TransparentBlack == <<0, 0, 0, 0>>
OpaqueBlack == <<0, 0, 0>>

\* The bitmap whose pixel i (row-major) is px[i].
Bitmap(w, h, px) ==
    [width |-> w, height |-> h,
     data |-> [i \in 0..(w * h * 4 - 1) |-> px[i \div 4][(i % 4) + 1]]]

\* A freshly sized canvas bitmap: transparent black.
BlankBitmap(w, h) == Bitmap(w, h, [i \in 0..(w * h - 1) |-> TransparentBlack])

\* Pixel (x, y) of a bitmap as <<r, g, b, a>>.
PixelAt(bm, x, y) ==
    LET i == (y * bm.width + x) * 4
    IN  <<bm.data[i], bm.data[i + 1], bm.data[i + 2], bm.data[i + 3]>>

-----------------------------------------------------------------------------
(* The canvas element and its 2d context *)

\* Source-over compositing of one straight-alpha pixel onto another, the
\* default globalCompositeOperation of drawImage and fillRect.
SourceOver(src, dst) ==
    LET sa == src[4]
        da == (dst[4] * (255 - sa)) \div 255
        oa == sa + da
        Ch(c) == IF oa = 0 THEN 0 ELSE (src[c] * sa + dst[c] * da) \div oa
    IN  <<Ch(1), Ch(2), Ch(3), oa>>

\* canvas.width = w: the bitmap is replaced by a transparent one and the
\* context returns to its default state (fillStyle black).
SetCanvasWidth(cv, w) ==
    [width |-> w, height |-> cv.height,
     data |-> BlankBitmap(w, cv.height).data, fillStyle |-> OpaqueBlack]

\* canvas.height = h: likewise.
SetCanvasHeight(cv, h) ==
    [width |-> cv.width, height |-> h,
     data |-> BlankBitmap(cv.width, h).data, fillStyle |-> OpaqueBlack]

\* ctx.drawImage(img, 0, 0): an image of zero width or height is not usable
\* and nothing is drawn; otherwise the image is composited at the origin,
\* clipped to the canvas.
DrawImage(cv, img) ==
    IF img.width = 0 \/ img.height = 0 THEN cv
    ELSE [cv EXCEPT !.data =
            [i \in DOMAIN cv.data |->
                LET p == i \div 4
                    x == p % cv.width
                    y == p \div cv.width
                IN  IF x < img.width /\ y < img.height
                    THEN SourceOver(PixelAt(img, x, y), PixelAt(cv, x, y))[(i % 4) + 1]
                    ELSE cv.data[i]]]

\* ctx.getImageData(0, 0, w, h).data: a copy of the canvas bytes; a zero
\* width or height raises IndexSizeError.
GetImageData(cv, w, h) ==
    IF w = 0 \/ h = 0 THEN [threw |-> "IndexSizeError", data |-> <<>>]
    ELSE [threw |-> "nothing",
          data |-> [i \in 0..(w * h * 4 - 1) |->
                      LET p == i \div 4
                          x == p % w
                          y == p \div w
                      IN  IF x < cv.width /\ y < cv.height
                          THEN cv.data[(y * cv.width + x) * 4 + (i % 4)]
                          ELSE 0]]

\* data[i] of a Uint8ClampedArray: undefined outside the array.
ReadByte(data, i) == IF i \in DOMAIN data THEN Number(data[i]) ELSE Undefined

DigitChars == <<"0", "1", "2", "3", "4", "5", "6", "7", "8", "9">>

RECURSIVE NumberToString(_)
\* String(n) for a byte value, as its sequence of decimal digit characters.
NumberToString(n) ==
    IF n < 10 THEN <<DigitChars[n + 1]>>
    ELSE Append(NumberToString(n \div 10), DigitChars[(n % 10) + 1])

\* The text `${v}` of a template literal.
ToText(v) == IF v = Undefined THEN <<"undefined">> ELSE NumberToString(v.value)

\* The template literal `rgb(${red}, ${green}, ${blue})`, kept as its three
\* argument texts.
RgbText(red, green, blue) == <<ToText(red), ToText(green), ToText(blue)>>

DigitValue(ch) == CHOOSE d \in 0..9 : DigitChars[d + 1] = ch

RECURSIVE DigitsValue(_)
DigitsValue(txt) ==
    IF Len(txt) = 0 THEN 0
    ELSE DigitsValue(SubSeq(txt, 1, Len(txt) - 1)) * 10 + DigitValue(txt[Len(txt)])

IsNumberText(txt) ==
    Len(txt) > 0 /\ \A k \in 1..Len(txt) : \E d \in 0..9 : DigitChars[d + 1] = txt[k]

\* The CSS colour parser on rgb(...): each argument must be a number and is
\* clamped to a byte; anything else is not a colour.
ParseRgb(txt) ==
    IF \A k \in 1..3 : IsNumberText(txt[k])
    THEN [valid |-> TRUE,
          rgb |-> [k \in 1..3 |->
                     IF DigitsValue(txt[k]) > 255 THEN 255 ELSE DigitsValue(txt[k])]]
    ELSE [valid |-> FALSE, rgb |-> <<>>]

\* ctx.fillStyle = text: an unparsable value is ignored.
SetFillStyle(cv, txt) ==
    IF ParseRgb(txt).valid THEN [cv EXCEPT !.fillStyle = ParseRgb(txt).rgb] ELSE cv

\* FillRect with a composite that keeps the alpha of the canvas pixel
\* (source-atop instead of source-over).
FillRectKeepAlpha(cv, x, y, w, h) ==
    LET x0 == IF w < 0 THEN x + w ELSE x
        x1 == IF w < 0 THEN x ELSE x + w
        y0 == IF h < 0 THEN y + h ELSE y
        y1 == IF h < 0 THEN y ELSE y + h
    IN  [cv EXCEPT !.data =
            [i \in DOMAIN cv.data |->
                LET p == i \div 4
                    px == p % cv.width
                    py == p \div cv.width
                IN  IF x0 <= px /\ px < x1 /\ y0 <= py /\ py < y1 /\ i % 4 < 3
                    THEN cv.fillStyle[(i % 4) + 1]
                    ELSE cv.data[i]]]

\* ctx.fillRect(x, y, w, h): the pixels of the rectangle that lie on the
\* canvas take the (opaque) fill colour; a negative extent runs the other
\* way, a zero extent paints nothing.
FillRect(cv, x, y, w, h) ==
    LET x0 == IF w < 0 THEN x + w ELSE x
        x1 == IF w < 0 THEN x ELSE x + w
        y0 == IF h < 0 THEN y + h ELSE y
        y1 == IF h < 0 THEN y ELSE y + h
        fill == <<cv.fillStyle[1], cv.fillStyle[2], cv.fillStyle[3], 255>>
    IN  [cv EXCEPT !.data =
            [i \in DOMAIN cv.data |->
                LET p == i \div 4
                    px == p % cv.width
                    py == p \div cv.width
                IN  IF x0 <= px /\ px < x1 /\ y0 <= py /\ py < y1
                    THEN SourceOver(fill, PixelAt(cv, px, py))[(i % 4) + 1]
                    ELSE cv.data[i]]]

\* canvas.toDataURL('image/png'): the PNG of the bitmap (lossless), or the
\* string "data:," when the canvas has no pixels.
ToDataURL(cv) ==
    IF cv.width = 0 \/ cv.height = 0
    THEN [mime |-> "none", width |-> 0, height |-> 0, data |-> <<>>]
    ELSE [mime |-> "image/png", width |-> cv.width, height |-> cv.height,
          data |-> cv.data]

\* The image an <img> decodes from such a PNG.
DecodePng(url) == [width |-> url.width, height |-> url.height, data |-> url.data]

-----------------------------------------------------------------------------
(* The timer callback of pixelateImage *)

\* The canvas element as mounted, before any run has sized it.  (Its default
\* bitmap is blank and is never read: the callback resizes the canvas before
\* it draws.  The blank bitmap is kept empty here.)
MountedCanvas == [width |-> 0, height |-> 0, data |-> <<>>, fillStyle |-> OpaqueBlack]

NoRun == [pc |-> "none", originalImage |-> Null, pixelSize |-> 0,
          data |-> <<>>, x |-> 0, y |-> 0, threw |-> "nothing"]

\* PrepareCanvas with width and height exchanged.
PrepareCanvasSwapped(cv, img) ==
    DrawImage(SetCanvasHeight(SetCanvasWidth(cv, img.height), img.width), img)

\* PrepareCanvas that leaves a canvas of the right size as it is and draws
\* over what it holds.
PrepareCanvasKeep(cv, img) ==
    IF cv.width = img.width /\ cv.height = img.height
    THEN DrawImage(cv, img)
    ELSE DrawImage(SetCanvasHeight(SetCanvasWidth(cv, img.width), img.height), img)

\* Size the canvas to the image and draw the image on it.
PrepareCanvas(cv, img) ==
    DrawImage(SetCanvasHeight(SetCanvasWidth(cv, img.width), img.height), img)

\* Entry of the callback up to the first loop test: the canvas is prepared
\* and read back.  getImageData can throw, which ends the callback there.
\* Gives the canvas and the callback's frame.
EnterCallback(cv, img, size) ==
    LET drawn == PrepareCanvas(cv, img)
        got == GetImageData(drawn, drawn.width, drawn.height)
    IN  [canvas |-> drawn,
         frame |-> [pc |-> IF got.threw = "nothing" THEN "loop" ELSE "threw",
                    originalImage |-> img, pixelSize |-> size,
                    data |-> got.data, x |-> 0, y |-> 0, threw |-> got.threw]]

\* FillBlock sampling the middle pixel of the block.
FillBlockCentre(cv, fr) ==
    LET half == fr.pixelSize \div 2
        pixelIndex == ((fr.y + half) * cv.width + fr.x + half) * 4
        red == ReadByte(fr.data, pixelIndex)
        green == ReadByte(fr.data, pixelIndex + 1)
        blue == ReadByte(fr.data, pixelIndex + 2)
    IN  FillRect(SetFillStyle(cv, RgbText(red, green, blue)),
                 fr.x, fr.y, fr.pixelSize, fr.pixelSize)

\* FillBlock indexing the rows of the ImageData by the canvas height.
FillBlockStride(cv, fr) ==
    LET pixelIndex == (fr.y * cv.height + fr.x) * 4
        red == ReadByte(fr.data, pixelIndex)
        green == ReadByte(fr.data, pixelIndex + 1)
        blue == ReadByte(fr.data, pixelIndex + 2)
    IN  FillRect(SetFillStyle(cv, RgbText(red, green, blue)),
                 fr.x, fr.y, fr.pixelSize, fr.pixelSize)

\* The body of the inner loop at block (fr.x, fr.y): sample the first pixel
\* of the block from the ImageData and fill the block with it.
FillBlock(cv, fr) ==
    LET pixelIndex == (fr.y * cv.width + fr.x) * 4
        red == ReadByte(fr.data, pixelIndex)
        green == ReadByte(fr.data, pixelIndex + 1)
        blue == ReadByte(fr.data, pixelIndex + 2)
    IN  FillRect(SetFillStyle(cv, RgbText(red, green, blue)),
                 fr.x, fr.y, fr.pixelSize, fr.pixelSize)

\* The outer loop test.
InLoops(cv, fr) == fr.y < cv.height

\* One turn of the nested loops from the inner loop test: either the body
\* and x += pixelSize, or the end of the row, y += pixelSize and x = 0.
LoopTurn(cv, fr) ==
    IF fr.x < cv.width
    THEN [canvas |-> FillBlock(cv, fr),
          frame |-> [fr EXCEPT !.x = fr.x + fr.pixelSize]]
    ELSE [canvas |-> cv,
          frame |-> [fr EXCEPT !.x = 0, !.y = fr.y + fr.pixelSize]]

RECURSIVE RunLoops(_, _)
\* The nested loops run to their end (they end for pixelSize >= 1).
RunLoops(cv, fr) ==
    IF InLoops(cv, fr)
    THEN RunLoops(LoopTurn(cv, fr).canvas, LoopTurn(cv, fr).frame)
    ELSE cv

\* The data URL a run of the callback on a newly mounted canvas stores, for
\* an image with pixels and a block size >= 1.
pixelate(img, size) ==
    LET start == EnterCallback(MountedCanvas, img, size)
    IN  ToDataURL(RunLoops(start.canvas, start.frame))

-----------------------------------------------------------------------------
(* Files the user can pick *)

\* A file is its MIME type, as <<type, subtype>>, and the bitmap an <img>
\* decodes from it.
PhotoA ==
    [type |-> <<"image", "png">>,
     image |-> Bitmap(3, 3, [i \in 0..8 |->
                  IF i \in {0, 4, 8} THEN Red ELSE IF i = 2 THEN Glass ELSE Blue])]

PhotoB ==
    [type |-> <<"image", "jpeg">>,
     image |-> Bitmap(2, 2, [i \in 0..3 |-> IF i = 0 THEN Blue ELSE Red])]

PhotoC ==
    [type |-> <<"image", "png">>,
     image |-> Bitmap(3, 2, [i \in 0..5 |->
                  <<Glass, Blue, Red, Red, Glass, Blue>>[i + 1]])]

PhotoD ==
    [type |-> <<"image", "gif">>,
     image |-> Bitmap(1, 3, [i \in 0..2 |->
                  IF i = 0 THEN Glass ELSE IF i = 1 THEN Red ELSE Blue])]

\* An SVG without intrinsic dimensions: it loads, with width and height 0.
SizelessSvg ==
    [type |-> <<"image", "svg+xml">>, image |-> Bitmap(0, 0, <<>>)]

Notes == [type |-> <<"text", "plain">>, image |-> Bitmap(0, 0, <<>>)]

DiskFiles == {PhotoA, PhotoB, SizelessSvg, Notes}

\* file.type.match('image.*')
TypeMatchesImage(type) == \E k \in 1..Len(type) : type[k] = "image"

\* The bitmap with background bg whose pixels at the indices in marks are c.
MarkedBitmap(w, h, marks, bg, c) ==
    Bitmap(w, h, [i \in 0..(w * h - 1) |-> IF i \in marks THEN c ELSE bg])

\* The source bitmaps the transform is applied to directly: every size up
\* to MaxWidth x MaxHeight (zero included), a blue background and up to
\* MaxMarked pixels of another colour, opaque or translucent.
Sources ==
    UNION { UNION { { MarkedBitmap(w, h, marks, Blue, c) :
                        marks \in { m \in SUBSET (0..(w * h - 1)) :
                                      Cardinality(m) <= MaxMarked },
                        c \in {Red, Glass} } :
                    h \in 0..MaxHeight } :
            w \in 0..MaxWidth }

BlockSizes == (0 - MaxNegBlock)..MaxBlockSize

SliderPositions == { v \in SliderMin..SliderMax : v <= MaxSlider }

-----------------------------------------------------------------------------
(* The component *)

Init ==
    /\ originalImage = Null
    /\ pixelatedImage = Null
    /\ isDragging = FALSE
    /\ pixelSize = InitialPixelSize
    /\ isProcessing = FALSE
    /\ canvas = MountedCanvas
    /\ loads = <<>>
    /\ timer = Null
    /\ run = NoRun

\* No callback is in the middle of its task.
BetweenTasks == run.pc # "loop"

\* processImage(file): a FileReader is made and the read started.
processImage(file) ==
    loads' = Append(loads, [file |-> file, stage |-> "reading"])

handleFileChange(file) ==
    /\ BetweenTasks
    /\ Len(loads) < MaxSelections
    /\ IF TypeMatchesImage(file.type)
       THEN processImage(file)
       ELSE UNCHANGED loads
    /\ UNCHANGED <<originalImage, pixelatedImage, isDragging, pixelSize,
                   isProcessing, canvas, timer, run>>

handleDragOver ==
    /\ BetweenTasks
    /\ isDragging' = TRUE
    /\ UNCHANGED <<originalImage, pixelatedImage, pixelSize, isProcessing,
                   canvas, loads, timer, run>>

handleDragLeave ==
    /\ BetweenTasks
    /\ isDragging' = FALSE
    /\ UNCHANGED <<originalImage, pixelatedImage, pixelSize, isProcessing,
                   canvas, loads, timer, run>>

handleDrop(file) ==
    /\ BetweenTasks
    /\ Len(loads) < MaxSelections
    /\ isDragging' = FALSE
    /\ IF TypeMatchesImage(file.type)
       THEN processImage(file)
       ELSE UNCHANGED loads
    /\ UNCHANGED <<originalImage, pixelatedImage, pixelSize, isProcessing,
                   canvas, timer, run>>

\* reader.onload of the k-th load: an Image is made and its src set.
ReaderOnload(k) ==
    /\ BetweenTasks
    /\ loads[k].stage = "reading"
    /\ loads' = [loads EXCEPT ![k].stage = "decoding"]
    /\ UNCHANGED <<originalImage, pixelatedImage, isDragging, pixelSize,
                   isProcessing, canvas, timer, run>>

\* img.onload of the k-th load.
ImgOnload(k) ==
    /\ BetweenTasks
    /\ loads[k].stage = "decoding"
    /\ loads' = [loads EXCEPT ![k].stage = "loaded"]
    /\ originalImage' = loads[k].file.image
    /\ pixelatedImage' = Null
    /\ UNCHANGED <<isDragging, pixelSize, isProcessing, canvas, timer, run>>

\* The closure pixelateImage hands to setTimeout: it holds the originalImage
\* and pixelSize of the render the click happened in.
TimerClosure(img, size) == [originalImage |-> img, pixelSize |-> size]

\* A click on the Pixelate button (it is disabled without an image and while
\* processing): pixelateImage up to setTimeout.
pixelateImage ==
    /\ BetweenTasks
    /\ originalImage # Null
    /\ ~isProcessing
    /\ isProcessing' = TRUE
    /\ timer' = TimerClosure(originalImage, pixelSize)
    /\ UNCHANGED <<originalImage, pixelatedImage, isDragging, pixelSize,
                   canvas, loads, run>>

handlePixelSizeChange(value) ==
    /\ BetweenTasks
    /\ pixelSize' = value
    /\ UNCHANGED <<originalImage, pixelatedImage, isDragging, isProcessing,
                   canvas, loads, timer, run>>

\* downloadImage: the link is made, clicked and removed; no state changes.
downloadImage ==
    /\ BetweenTasks
    /\ pixelatedImage # Null
    /\ UNCHANGED vars

\* The timer fires: the callback runs up to its first loop test.
TimerFires ==
    /\ BetweenTasks
    /\ timer # Null
    /\ LET start == EnterCallback(canvas, timer.originalImage, timer.pixelSize)
       IN  /\ canvas' = start.canvas
           /\ run' = start.frame
    /\ timer' = Null
    /\ UNCHANGED <<originalImage, pixelatedImage, isDragging, pixelSize,
                   isProcessing, loads>>

\* The callback takes one turn of its loops.  (A counter that runs below
\* zero is followed for MaxOutside turns.)
LoopStep ==
    /\ run.pc = "loop"
    /\ InLoops(canvas, run)
    /\ run.x >= 0 - MaxOutside /\ run.y >= 0 - MaxOutside
    /\ canvas' = LoopTurn(canvas, run).canvas
    /\ run' = LoopTurn(canvas, run).frame
    /\ UNCHANGED <<originalImage, pixelatedImage, isDragging, pixelSize,
                   isProcessing, loads, timer>>

\* The loops are over: the canvas is exported and the state updated.
TimerReturns ==
    /\ run.pc = "loop"
    /\ ~InLoops(canvas, run)
    /\ pixelatedImage' = ToDataURL(canvas)
    /\ isProcessing' = FALSE
    /\ run' = [run EXCEPT !.pc = "returned"]
    /\ UNCHANGED <<originalImage, isDragging, pixelSize, canvas, loads, timer>>

Next ==
    \/ \E file \in DiskFiles : handleFileChange(file)
    \/ handleDragOver
    \/ handleDragLeave
    \/ \E file \in DiskFiles : handleDrop(file)
    \/ \E k \in 1..Len(loads) : ReaderOnload(k)
    \/ \E k \in 1..Len(loads) : ImgOnload(k)
    \/ pixelateImage
    \/ \E value \in SliderPositions : handlePixelSizeChange(value)
    \/ downloadImage
    \/ TimerFires
    \/ LoopStep
    \/ TimerReturns

Spec == Init /\ [][Next]_vars

-----------------------------------------------------------------------------
(* The transform on its own: pixelate(source, blockSize) *)

\* The state in which Pixelate has just been clicked on a loaded source.
InitFn ==
    /\ originalImage \in Sources
    /\ pixelSize \in BlockSizes
    /\ pixelatedImage = Null
    /\ isDragging = FALSE
    /\ isProcessing = TRUE
    /\ canvas = MountedCanvas
    /\ loads = <<>>
    /\ timer = TimerClosure(originalImage, pixelSize)
    /\ run = NoRun

\* The exported PNG is loaded as the next source (processImage through
\* img.onload) and Pixelate is clicked again.
Repixelate ==
    /\ run.pc = "returned"
    /\ ~isProcessing
    /\ pixelatedImage # Null
    /\ pixelatedImage.mime = "image/png"
    /\ Len(loads) < MaxPasses - 1
    /\ loads' = Append(loads, [file |-> [type |-> <<"image", "png">>,
                                         image |-> DecodePng(pixelatedImage)],
                               stage |-> "loaded"])
    /\ originalImage' = DecodePng(pixelatedImage)
    /\ pixelatedImage' = Null
    /\ isProcessing' = TRUE
    /\ timer' = TimerClosure(DecodePng(pixelatedImage), pixelSize)
    /\ UNCHANGED <<isDragging, pixelSize, canvas, run>>

NextFn == TimerFires \/ LoopStep \/ TimerReturns \/ Repixelate

SpecFn == InitFn /\ [][NextFn]_vars

-----------------------------------------------------------------------------
(* Re-running on one loaded image: adjust the slider, click Pixelate again *)

\* The state once a picked image file has loaded.
InitLoaded ==
    /\ \E file \in { f \in DiskFiles \cup {PhotoC, PhotoD} : TypeMatchesImage(f.type) } :
          /\ loads = <<[file |-> file, stage |-> "loaded"]>>
          /\ originalImage = file.image
    /\ pixelatedImage = Null
    /\ isDragging = FALSE
    /\ pixelSize = InitialPixelSize
    /\ isProcessing = FALSE
    /\ canvas = MountedCanvas
    /\ timer = Null
    /\ run = NoRun

NextRerun ==
    \/ pixelateImage
    \/ \E value \in SliderPositions : handlePixelSizeChange(value)
    \/ downloadImage
    \/ TimerFires
    \/ LoopStep
    \/ TimerReturns

SpecRerun == InitLoaded /\ [][NextRerun]_vars

-----------------------------------------------------------------------------
(* Properties *)

\* The <<r, g, b>> of a pixel.
Rgb(px) == <<px[1], px[2], px[3]>>

\* The source of the latest callback has pixels and its block size is >= 1.
ValidRun ==
    /\ run.pc # "none"
    /\ run.originalImage.width > 0
    /\ run.originalImage.height > 0
    /\ run.pixelSize >= 1

\* The latest callback has returned and its result is the one stored.
ResultStored == run.pc = "returned" /\ pixelatedImage # Null

\* C1: for a source of width W > 0 and height H > 0 and a block size
\* b >= 1, every output pixel (x, y) has the red, green and blue of the
\* source pixel at (x - x mod b, y - y mod b), partial edge blocks included;
\* the loops read only inside the ImageData and the canvas keeps exactly the
\* W x H pixels of the source (nothing is written outside).
C1_BlockCorner ==
    ValidRun =>
        LET W == run.originalImage.width
            H == run.originalImage.height
            b == run.pixelSize
        IN  /\ canvas.width = W /\ canvas.height = H
            /\ DOMAIN canvas.data = 0..(W * H * 4 - 1)
            /\ (run.pc = "loop" /\ InLoops(canvas, run) /\ run.x < canvas.width) =>
                  /\ run.x >= 0 /\ run.y >= 0
                  /\ \A c \in 0..2 :
                        (run.y * canvas.width + run.x) * 4 + c \in DOMAIN run.data
            /\ ResultStored =>
                  /\ pixelatedImage.width = W /\ pixelatedImage.height = H
                  /\ \A x \in 0..(W - 1), y \in 0..(H - 1) :
                        Rgb(PixelAt(pixelatedImage, x, y))
                          = Rgb(PixelAt(run.originalImage, x - (x % b), y - (y % b)))

\* A 3 x 3 source with block size 2 has been pixelated: the 1 x 1 corner
\* block at (2, 2) shows its own red pixel, the 2 x 2 block at (0, 0) is blue.
C1_Witness ==
    /\ ValidRun /\ ResultStored
    /\ run.originalImage.width = 3 /\ run.originalImage.height = 3
    /\ run.pixelSize = 2
    /\ PixelAt(run.originalImage, 2, 2) = Red
    /\ PixelAt(pixelatedImage, 2, 2) = Red
    /\ PixelAt(pixelatedImage, 1, 1) = Blue

\* C2: for width > 0, height > 0 and block size >= 1, the output has the
\* width and the height of the source.
C2_SameDimensions ==
    (ValidRun /\ ResultStored) =>
        /\ pixelatedImage.mime = "image/png"
        /\ pixelatedImage.width = run.originalImage.width
        /\ pixelatedImage.height = run.originalImage.height
        /\ DOMAIN pixelatedImage.data = DOMAIN run.originalImage.data

\* A 3 x 2 source has been pixelated into a 3 x 2 result.
C2_Witness ==
    /\ ValidRun /\ ResultStored
    /\ run.originalImage.width = 3 /\ run.originalImage.height = 2
    /\ pixelatedImage.width = 3 /\ pixelatedImage.height = 2

\* C3: a run leaves the loaded image as it was, and the result of every run
\* is the result of a first run (on the newly mounted canvas) with the same
\* image and block size, whatever runs came before and whatever the canvas
\* held.
C3_RunsIndependent ==
    [][/\ (run' # run) => /\ originalImage' = originalImage
                          /\ (run.pc = "loop" =>
                                run'.originalImage = run.originalImage)
       /\ (run'.pc = "returned" /\ pixelatedImage' # Null) =>
             pixelatedImage' = pixelate(run'.originalImage, run'.pixelSize)]_vars

\* A second run on PhotoA, with block size 2, has finished its loops while
\* the result of an earlier run with another block size (all red) is still
\* the stored one; the canvas holds what a first run with size 2 gives.
C3_Witness ==
    /\ run.pc = "loop" /\ ~InLoops(canvas, run)
    /\ run.originalImage = PhotoA.image /\ originalImage = PhotoA.image
    /\ run.pixelSize = 2
    /\ pixelatedImage # Null
    /\ pixelatedImage = pixelate(PhotoA.image, 3)
    /\ pixelatedImage # pixelate(PhotoA.image, 2)
    /\ ToDataURL(canvas) = pixelate(PhotoA.image, 2)

\* C4 as stated: with block size 1 the output equals the source in all four
\* channels of every pixel.
C4_IdentityAllChannels ==
    (ValidRun /\ ResultStored /\ run.pixelSize = 1) =>
        pixelatedImage.data = run.originalImage.data

\* C4 amended: with block size 1 every output pixel has the red, green and
\* blue of the same source pixel and alpha 255.
C4_IdentityRgbOpaque ==
    (ValidRun /\ ResultStored /\ run.pixelSize = 1) =>
        /\ pixelatedImage.width = run.originalImage.width
        /\ pixelatedImage.height = run.originalImage.height
        /\ \A x \in 0..(run.originalImage.width - 1),
              y \in 0..(run.originalImage.height - 1) :
                /\ Rgb(PixelAt(pixelatedImage, x, y))
                     = Rgb(PixelAt(run.originalImage, x, y))
                /\ PixelAt(pixelatedImage, x, y)[4] = 255

\* A 2 x 2 source with a translucent pixel at (1, 1) has been pixelated with
\* block size 1: the pixel keeps its colour and is opaque in the output.
C4_Witness ==
    /\ ValidRun /\ ResultStored /\ run.pixelSize = 1
    /\ run.originalImage.width = 2 /\ run.originalImage.height = 2
    /\ PixelAt(run.originalImage, 1, 1) = Glass
    /\ PixelAt(pixelatedImage, 1, 1) = <<0, 255, 0, 255>>

\* C5: a call with a block size < 1 (on a source with pixels) fails with
\* InvalidParameter: it never gets into the loops and stores no result.
C5_InvalidParameter ==
    (run.pc # "none" /\ run.pixelSize < 1
       /\ run.originalImage.width > 0 /\ run.originalImage.height > 0) =>
        /\ run.pc = "threw"
        /\ run.threw = "InvalidParameter"
        /\ pixelatedImage = Null

\* C6: a source of width or height 0 ends the run with an EmptyInput error
\* or as a no-op that returns an empty buffer, not with another failure in
\* the middle of the transform.
C6_EmptyInput ==
    (run.pc # "none" /\ run.pixelSize >= 1
       /\ (run.originalImage.width = 0 \/ run.originalImage.height = 0)) =>
        \/ run.pc = "threw" /\ run.threw = "EmptyInput"
        \/ run.pc = "returned" /\ ~isProcessing
        \/ run.pc = "loop" /\ run.threw = "nothing"

\* The sources with pixels, and the block sizes >= 1.
PixelSources == { s \in Sources : s.width > 0 /\ s.height > 0 }
PositiveBlockSizes == { n \in BlockSizes : n >= 1 }

\* C7 as stated: there are a source and a block size n for which
\* pixelating the pixelated image again with n changes it.
C7_NotIdempotent ==
    pixelSize \in BlockSizes =>
        \E s \in PixelSources, n \in PositiveBlockSizes :
            pixelate(DecodePng(pixelate(s, n)), n) # pixelate(s, n)

\* C7 amended: pixelating a pixelated image again with the same block size
\* gives the same image, for every source with pixels and block size >= 1.
C7_Idempotent ==
    (ResultStored /\ Len(loads) >= 1) =>
        /\ run.originalImage = loads[Len(loads)].file.image
        /\ DecodePng(pixelatedImage) = loads[Len(loads)].file.image

\* The result of pixelating a 3 x 3 source with block size 2 has been
\* pixelated again with block size 2, and it is not one solid colour.
C7_Witness ==
    /\ ResultStored /\ Len(loads) >= 1
    /\ run.pixelSize = 2
    /\ pixelatedImage.width = 3 /\ pixelatedImage.height = 3
    /\ PixelAt(pixelatedImage, 0, 0) # PixelAt(pixelatedImage, 2, 2)

\* C8: a stored result is always the pixelation (with some block size the
\* slider can have had) of the image now held in originalImage.
C8_ResultOfCurrentImage ==
    (pixelatedImage # Null /\ originalImage # Null) =>
        \E n \in SliderPositions \cup {InitialPixelSize} :
            pixelatedImage = pixelate(originalImage, n)

\* C9: a started run ends with isProcessing false and a result stored: once
\* the callback is over and no other is pending, isProcessing is false.
C9_RunEnds ==
    (run.pc \in {"returned", "threw"} /\ timer = Null) =>
        /\ ~isProcessing
        /\ run.pc = "returned"

\* C10: once every selected file has been read and decoded, originalImage is
\* the image of the file selected last.
C10_LastSelectedWins ==
    (Len(loads) >= 1 /\ \A k \in 1..Len(loads) : loads[k].stage = "loaded") =>
        originalImage = loads[Len(loads)].file.image

====
